---- MODULE Spec2Model ----
(***************************************************************************)
(* Model of lib/build-registered-datastore-instance.js: the builder of a   *)
(* registered datastore instance ("rdi") and its four datastore methods    *)
(* leaseConnection, sendStatement, sendNativeQuery and transaction.        *)
(*                                                                         *)
(* JavaScript values are modelled as follows.                              *)
(*  - `undefined` is the string "undefined"; the three capability flags    *)
(*    (declared without a value at lines 133-135) are "undefined", "true"  *)
(*    or "false".                                                          *)
(*  - An adapter is a record: `compatible` is the verdict of               *)
(*    checkAdapterCompatibility, `dsKind` says whether `datastores` is     *)
(*    absent, an own property, or a property reached through the prototype *)
(*    chain (_.has() sees own properties only, while the property read     *)
(*    `adapter.datastores` sees both), and `datastores` is the mapping     *)
(*    from datastore names to entries.                                     *)
(*  - An entry is a record of the own keys it has among manager, driver    *)
(*    and config, and of the value of its `driver`: whether it is an       *)
(*    object, and the set of method names it exposes.                      *)
(*  - An Error object is a record; `origin` is its identity: "build" for   *)
(*    the one created while building, the invocation's index for an error  *)
(*    created while a method executes.                                     *)
(*  - The options dictionary of an invocation is one object, handed to the *)
(*    helper by reference; calls[i].options is that object.                *)
(***************************************************************************)
EXTENDS Integers, FiniteSets, Sequences, TLC

VARIABLES
  datastoreName,   \* 1st argument of buildRegisteredDatastoreInstance
  adapter,         \* 3rd argument of buildRegisteredDatastoreInstance
  phase,           \* "unbuilt", "built" (rdi returned) or "aborted" (build threw)
  thrown,          \* what build threw: "none", "fatal", "TypeError", "AssertionError"
  rdi,             \* the closure state of the returned handle
  calls            \* the invocations of the handle's methods, by index

vars == <<datastoreName, adapter, phase, thrown, rdi, calls>>

----------------------------------------------------------------------------
\* Bounds and value sets

MaxCalls == 2

CallIds == 1..MaxCalls

ConnectableMethods ==
  {"createManager", "destroyManager", "getConnection", "releaseConnection"}

QueryableMethods ==
  {"sendNativeQuery", "compileStatement", "parseNativeQueryResult", "parseNativeQueryError"}

TransactionalMethods ==
  {"beginTransaction", "commitTransaction", "rollbackTransaction"}

MethodNames == ConnectableMethods \cup QueryableMethods \cup TransactionalMethods

EntryKeys == {"manager", "driver", "config"}

Ops == {"leaseConnection", "sendStatement", "sendNativeQuery", "transaction"}

MetaValues == {"m1", "m2"}

ConnValues == {"c1"}

\* The driver of an entry that has no `driver` key (reading it gives undefined).
NoDriver == [isObject |-> FALSE, methods |-> {}]

DriverValues(methodSets) ==
  {NoDriver} \cup {[isObject |-> TRUE, methods |-> ms] : ms \in methodSets}

EntriesOver(keySets, methodSets) ==
  {[keys |-> ks, driver |-> d] :
      ks \in {k \in keySets : "driver" \in k}, d \in DriverValues(methodSets)}
  \cup {[keys |-> ks, driver |-> NoDriver] : ks \in {k \in keySets : "driver" \notin k}}

\* The `datastores` mappings with at most one entry.
MappingsOver(names, keySets, methodSets) ==
  {<<>>} \cup {[n \in {nm} |-> e] : nm \in names, e \in EntriesOver(keySets, methodSets)}

AdaptersOver(kinds, names, keySets, methodSets) ==
  {[compatible |-> c, dsKind |-> "absent", datastores |-> <<>>] : c \in BOOLEAN}
  \cup {[compatible |-> c, dsKind |-> k, datastores |-> m] :
          c \in BOOLEAN, k \in kinds,
          m \in MappingsOver(names, keySets, methodSets)}

\* The adapters the methods are exercised on.
CallKeySets == {EntryKeys, {"manager", "config"}}

CallMethodSets ==
  { {}, ConnectableMethods, ConnectableMethods \cup QueryableMethods, MethodNames,
    QueryableMethods \cup TransactionalMethods }

CallAdapters ==
  AdaptersOver({"inherited"}, {"default"}, CallKeySets, CallMethodSets)
  \cup AdaptersOver({"own"}, {"default"}, {EntryKeys}, {MethodNames})

\* The adapters build is probed on: every key set, every set of method names.
ProbeNames == {"default", "legacy"}

ProbeAdapters ==
  AdaptersOver({"own", "inherited"}, ProbeNames, SUBSET EntryKeys, SUBSET MethodNames)

----------------------------------------------------------------------------
\* Errors

NoError == [code |-> "none", mode |-> "none", layer |-> "none", op |-> "none", origin |-> "none"]

\* flaverr('E_NOT_SUPPORTED', new Error(...)) at lines 74, 90 and 106
StructuralError(mode) ==
  [code |-> "E_NOT_SUPPORTED", mode |-> mode, layer |-> "none", op |-> "none", origin |-> "build"]

\* flaverr('E_NOT_SUPPORTED', new Error(...)) at lines 223, 280, 341 and 402
TierError(layer, op, i) ==
  [code |-> "E_NOT_SUPPORTED", mode |-> "tier", layer |-> layer, op |-> op, origin |-> i]

----------------------------------------------------------------------------
\* Build

\* checkAdapterCompatibility(datastoreName, adapter) returns, or throws
CheckAdapterCompatibility(name, a) == a.compatible

\* _.has(adapter, 'datastores'): an own property
HasDatastores(a) == a.dsKind = "own"

\* adapter.datastores is something a property can be read from
DatastoresReadable(a) == a.dsKind # "absent"

\* adapter.datastores[datastoreName] is truthy
HasEntry(name, a) == name \in DOMAIN a.datastores

\* _.has(adapterDSEntry, 'manager') && ... 'driver' && ... 'config'
EntryComplete(e) == {"manager", "driver", "config"} \subseteq e.keys

\* lines 73-118: the value of genericDoesNotSupportDatastoreMethodsError, or
\* the TypeError of reading a property of undefined at line 88
StructuralCheck(name, a) ==
  IF HasDatastores(a)
    THEN [thrown |-> "none", error |-> StructuralError("noInternalDatastores")]
  ELSE IF ~DatastoresReadable(a)
    THEN [thrown |-> "TypeError", error |-> NoError]
  ELSE IF ~HasEntry(name, a)
    THEN [thrown |-> "none", error |-> StructuralError("missingReference")]
  ELSE IF ~EntryComplete(a.datastores[name])
    THEN [thrown |-> "none", error |-> StructuralError("incompleteReference")]
  ELSE [thrown |-> "none", error |-> NoError]

\* _.difference(required, driverMethodNames).length === 0
HasAll(required, driverMethodNames) == required \ driverMethodNames = {}

JsBool(b) == IF b THEN "true" ELSE "false"

IsConnectable(driverMethodNames) ==
  JsBool(HasAll(ConnectableMethods, driverMethodNames))

\* Mutant: the queryable tier computed without `isConnectable &&`.
IsQueryableAlone(driverMethodNames) ==
  JsBool(HasAll(QueryableMethods, driverMethodNames))

IsQueryable(driverMethodNames) ==
  JsBool(IsConnectable(driverMethodNames) = "true"
         /\ HasAll(QueryableMethods, driverMethodNames))

IsTransactional(driverMethodNames) ==
  JsBool(IsQueryable(driverMethodNames) = "true"
         /\ HasAll(TransactionalMethods, driverMethodNames))

UnsetFlags ==
  [isConnectable |-> "undefined", isQueryable |-> "undefined", isTransactional |-> "undefined"]

\* lines 133-166: the three flags, or the AssertionError of line 139
CapabilityCheck(name, a, error) ==
  IF error # NoError
    THEN [thrown |-> "none", flags |-> UnsetFlags]
  ELSE IF ~a.datastores[name].driver.isObject
    THEN [thrown |-> "AssertionError", flags |-> UnsetFlags]
  ELSE [thrown |-> "none",
        flags |-> [isConnectable   |-> IsConnectable(a.datastores[name].driver.methods),
                   isQueryable     |-> IsQueryable(a.datastores[name].driver.methods),
                   isTransactional |-> IsTransactional(a.datastores[name].driver.methods)]]

NoRdi == [error |-> NoError] @@ UnsetFlags

\* Mutant: the compatibility check moved after the probing of the adapter.
BuildOutcomeGateLast(name, a) ==
  LET s == StructuralCheck(name, a) IN
    IF s.thrown # "none"
      THEN [thrown |-> s.thrown, rdi |-> NoRdi]
    ELSE LET c == CapabilityCheck(name, a, s.error) IN
      IF c.thrown # "none"
        THEN [thrown |-> c.thrown, rdi |-> NoRdi]
      ELSE IF ~CheckAdapterCompatibility(name, a)
        THEN [thrown |-> "fatal", rdi |-> NoRdi]
      ELSE [thrown |-> "none", rdi |-> [error |-> s.error] @@ c.flags]

\* What buildRegisteredDatastoreInstance(name, config, a) does: the exception
\* it throws ("none" when it returns) and the closure state of the handle.
BuildOutcome(name, a) ==
  IF ~CheckAdapterCompatibility(name, a)
    THEN [thrown |-> "fatal", rdi |-> NoRdi]
  ELSE LET s == StructuralCheck(name, a) IN
    IF s.thrown # "none"
      THEN [thrown |-> s.thrown, rdi |-> NoRdi]
    ELSE LET c == CapabilityCheck(name, a, s.error) IN
      IF c.thrown # "none"
        THEN [thrown |-> c.thrown, rdi |-> NoRdi]
      ELSE [thrown |-> "none", rdi |-> [error |-> s.error] @@ c.flags]

Build ==
  /\ phase = "unbuilt"
  /\ LET out == BuildOutcome(datastoreName, adapter) IN
       /\ thrown' = out.thrown
       /\ rdi' = out.rdi
       /\ phase' = IF out.thrown = "none" THEN "built" ELSE "aborted"
  /\ UNCHANGED <<datastoreName, adapter, calls>>

----------------------------------------------------------------------------
\* Invocations

\* Mutant: transaction() tests the flag of sendStatement().
TierFlagCopied(op) ==
  CASE op = "leaseConnection" -> "isConnectable"
    [] op = "sendStatement"   -> "isQueryable"
    [] op = "sendNativeQuery" -> "isQueryable"
    [] op = "transaction"     -> "isQueryable"

\* the capability flag a method tests before delegating (lines 222, 279, 340, 401)
TierFlag(op) ==
  CASE op = "leaseConnection" -> "isConnectable"
    [] op = "sendStatement"   -> "isQueryable"
    [] op = "sendNativeQuery" -> "isQueryable"
    [] op = "transaction"     -> "isTransactional"

\* the interface layer its error message names (lines 225, 282, 343, 404)
TierLayer(op) ==
  CASE op = "leaseConnection" -> "connectable"
    [] op = "sendStatement"   -> "queryable"
    [] op = "sendNativeQuery" -> "queryable"
    [] op = "transaction"     -> "transactional"

\* the helper a method delegates to (lines 231, 288, 349, 410)
HelperOf(op) ==
  CASE op = "leaseConnection" -> "helpLeaseConnection"
    [] op = "sendStatement"   -> "helpSendStatement"
    [] op = "sendNativeQuery" -> "helpSendNativeQuery"
    [] op = "transaction"     -> "helpRunTransaction"

\* the methods whose deferred has a .usingConnection() setter (lines 297, 358)
HasUsingConnectionSetter(op) == op \in {"sendStatement", "sendNativeQuery"}

NoOptions == [primary |-> "undefined", meta |-> "undefined", usingConnection |-> "undefined"]

\* the primary argument (_during, _statement, _nativeQuery) of the i-th invocation
PrimaryArg(i) == <<"arg", i>>

\* the `more` arguments tried: none, and {meta: 'm1'}
MoreValues == {<<>>, [meta |-> "m1"]}

\* _.extend(options, more)
Extend(options, more) ==
  [k \in DOMAIN options |-> IF k \in DOMAIN more THEN more[k] ELSE options[k]]

\* var options = {...}; if (more) { _.extend(options, more); }
\* (lines 204-214, 260-271, 321-332, 383-393)
InitialOptions(i, more) ==
  Extend([primary |-> PrimaryArg(i), meta |-> "undefined", usingConnection |-> "undefined"],
         more)

\* meta: function(_meta){ options.meta = _meta; return this; }
WithMeta(options, v) == [options EXCEPT !.meta = v]

\* usingConnection: function(_usingConnection){ options.usingConnection = ...; return this; }
WithUsingConnection(options, v) == [options EXCEPT !.usingConnection = v]

IdleCall ==
  [status |-> "idle", op |-> "none", options |-> NoOptions,
   helper |-> "none", helperCalls |-> 0, error |-> NoError]

\* Mutant: the tier is tested before the generic error.
HandleExecTierFirst(i, c, r) ==
  IF r[TierFlag(c.op)] # "true"
    THEN [c EXCEPT !.error = TierError(TierLayer(c.op), c.op, i)]
  ELSE IF r.error # NoError
    THEN [c EXCEPT !.error = r.error]
  ELSE [c EXCEPT !.helper = HelperOf(c.op), !.helperCalls = @ + 1]

\* function _handleExec(done) of the i-th invocation, c being its record:
\* the generic error, else the tier error, else the helper, given `options`
HandleExec(i, c, r) ==
  IF r.error # NoError
    THEN [c EXCEPT !.error = r.error]
  ELSE IF r[TierFlag(c.op)] # "true"
    THEN [c EXCEPT !.error = TierError(TierLayer(c.op), c.op, i)]
  ELSE [c EXCEPT !.helper = HelperOf(c.op), !.helperCalls = @ + 1]

\* Mutant: one options dictionary for the handle, shared by its invocations.
InvokeSharedOptions(i, op, more, explicitCb) ==
  /\ phase = "built"
  /\ calls[i].status = "idle"
  /\ i > 1 => calls[i - 1].status # "idle"
  /\ LET c == [IdleCall EXCEPT !.op = op, !.options = InitialOptions(i, more)] IN
       calls' = [j \in CallIds |->
                   IF j = i
                     THEN IF explicitCb
                            THEN [HandleExec(i, c, rdi) EXCEPT !.status = "doneCb"]
                            ELSE [c EXCEPT !.status = "pending"]
                   ELSE IF calls[j].status # "idle"
                     THEN [calls[j] EXCEPT !.options = c.options]
                   ELSE calls[j]]
  /\ UNCHANGED <<datastoreName, adapter, phase, thrown, rdi>>

\* rdi.<op>(primary, explicitCb, more): with an explicit callback parley
\* executes at once and returns nothing; without, it returns the deferred.
Invoke(i, op, more, explicitCb) ==
  /\ phase = "built"
  /\ calls[i].status = "idle"
  /\ i > 1 => calls[i - 1].status # "idle"
  /\ LET c == [IdleCall EXCEPT !.op = op, !.options = InitialOptions(i, more)] IN
       calls' = [calls EXCEPT ![i] =
                   IF explicitCb
                     THEN [HandleExec(i, c, rdi) EXCEPT !.status = "doneCb"]
                     ELSE [c EXCEPT !.status = "pending"]]
  /\ UNCHANGED <<datastoreName, adapter, phase, thrown, rdi>>

\* Mutant: the setter executes the deferred.
SetMetaAndExec(i, v) ==
  /\ calls[i].status \in {"pending", "done"}
  /\ calls' = [calls EXCEPT ![i] =
                 IF @.status = "pending"
                   THEN [HandleExec(i, [@ EXCEPT !.options = WithMeta(@, v)], rdi)
                           EXCEPT !.status = "done"]
                   ELSE [@ EXCEPT !.options = WithMeta(@, v)]]
  /\ UNCHANGED <<datastoreName, adapter, phase, thrown, rdi>>

\* deferred.meta(v)
SetMeta(i, v) ==
  /\ calls[i].status \in {"pending", "done"}
  /\ calls' = [calls EXCEPT ![i].options = WithMeta(@, v)]
  /\ UNCHANGED <<datastoreName, adapter, phase, thrown, rdi>>

\* deferred.usingConnection(v)
SetUsingConnection(i, v) ==
  /\ calls[i].status \in {"pending", "done"}
  /\ HasUsingConnectionSetter(calls[i].op)
  /\ calls' = [calls EXCEPT ![i].options = WithUsingConnection(@, v)]
  /\ UNCHANGED <<datastoreName, adapter, phase, thrown, rdi>>

\* the deferred has begun executing
HasBegunExecuting(c) == c.status = "done"

\* deferred.exec(cb), .then(), .toPromise() or await: the first one runs
\* _handleExec, a later one is ignored
Exec(i) ==
  /\ calls[i].status \in {"pending", "done"}
  /\ calls' = [calls EXCEPT ![i] =
                 IF HasBegunExecuting(@)
                   THEN @
                   ELSE [HandleExec(i, @, rdi) EXCEPT !.status = "done"]]
  /\ UNCHANGED <<datastoreName, adapter, phase, thrown, rdi>>

Init ==
  /\ datastoreName = "default"
  /\ adapter \in CallAdapters
  /\ phase = "unbuilt"
  /\ thrown = "none"
  /\ rdi = NoRdi
  /\ calls = [i \in CallIds |-> IdleCall]

Next ==
  \/ Build
  \/ \E i \in CallIds, op \in Ops, more \in MoreValues, cb \in BOOLEAN : Invoke(i, op, more, cb)
  \/ \E i \in CallIds, v \in MetaValues : SetMeta(i, v)
  \/ \E i \in CallIds, v \in ConnValues : SetUsingConnection(i, v)
  \/ \E i \in CallIds : Exec(i)

Spec == Init /\ [][Next]_vars

\* Build alone, on every adapter shape and every set of driver method names.
InitProbe ==
  /\ datastoreName \in ProbeNames
  /\ adapter \in ProbeAdapters
  /\ phase = "unbuilt"
  /\ thrown = "none"
  /\ rdi = NoRdi
  /\ calls = [i \in CallIds |-> IdleCall]

NextProbe == Build

SpecProbe == InitProbe /\ [][NextProbe]_vars

----------------------------------------------------------------------------
\* Vocabulary of the properties

Attempted == phase # "unbuilt"

Executed(i) == calls[i].status \in {"done", "doneCb"}

Truthy(flag) == flag = "true"

\* the entry build looks up, when the adapter has one
EntryPresent == adapter.dsKind # "absent" /\ datastoreName \in DOMAIN adapter.datastores

Entry == adapter.datastores[datastoreName]

\* the driver method names a method needs, by the tiers of the documentation
RequiredMethods(op) ==
  CASE op = "leaseConnection" -> ConnectableMethods
    [] op = "sendStatement"   -> ConnectableMethods \cup QueryableMethods
    [] op = "sendNativeQuery" -> ConnectableMethods \cup QueryableMethods
    [] op = "transaction"     -> MethodNames

Delegated(i) ==
  /\ calls[i].helper = HelperOf(calls[i].op)
  /\ calls[i].helperCalls = 1
  /\ calls[i].error = NoError

FailedWith(i, e) ==
  /\ calls[i].error = e
  /\ calls[i].helper = "none"
  /\ calls[i].helperCalls = 0

----------------------------------------------------------------------------
\* C1: for a compatible adapter with no `datastores` at all, build returns a
\* handle, and every executed method fails with the structural E_NOT_SUPPORTED
\* error "adapter does not expose its internal datastores", without delegating.
C1_NoDatastoresGivesStructuralError ==
  (Attempted /\ adapter.compatible /\ adapter.dsKind = "absent")
    => /\ phase = "built"
       /\ rdi.error = StructuralError("noInternalDatastores")
       /\ \A i \in CallIds : Executed(i) => FailedWith(i, rdi.error)

\* C2: for a compatible adapter whose `datastores` has a complete entry for the
\* name, with a driver exposing all eleven method names, build sets no terminal
\* error, all three flags are true, and every executed method has invoked its
\* helper and raised no error.
C2_FullDriverDelegates ==
  (Attempted /\ adapter.compatible /\ EntryPresent
     /\ EntryKeys \subseteq Entry.keys
     /\ Entry.driver.isObject /\ Entry.driver.methods = MethodNames)
    => /\ phase = "built"
       /\ rdi.error = NoError
       /\ Truthy(rdi.isConnectable) /\ Truthy(rdi.isQueryable) /\ Truthy(rdi.isTransactional)
       /\ \A i \in CallIds : Executed(i) => Delegated(i)

\* C3: when build has set a terminal structural error, every executed method,
\* whichever it is, has completed with that same error object (the one made at
\* build time, not a tier error, not one made by the invocation) and has
\* invoked no helper.
C3_TerminalErrorSupersedes ==
  (phase = "built" /\ rdi.error # NoError)
    => /\ rdi.error.origin = "build"
       /\ \A i \in CallIds : Executed(i) => FailedWith(i, rdi.error)

C3_Witness ==
  /\ phase = "built"
  /\ rdi.error = StructuralError("incompleteReference")
  /\ Executed(1) /\ calls[1].op = "leaseConnection" /\ calls[1].error = rdi.error
  /\ Executed(2) /\ calls[2].op = "transaction" /\ calls[2].error = calls[1].error

\* C4: when build has set no terminal error, an executed method has invoked its
\* helper if and only if the driver exposes the method names of its tier and of
\* the tiers below; otherwise it has failed with E_NOT_SUPPORTED naming its own
\* layer and itself, without invoking the helper.  With exactly the four
\* connection methods, leaseConnection delegates and the other three fail.
C4_DispatchByTier ==
  (phase = "built" /\ rdi.error = NoError)
    => \A i \in CallIds : Executed(i) =>
         /\ IF RequiredMethods(calls[i].op) \subseteq Entry.driver.methods
              THEN Delegated(i)
              ELSE /\ calls[i].helper = "none" /\ calls[i].helperCalls = 0
                   /\ calls[i].error.code = "E_NOT_SUPPORTED"
                   /\ calls[i].error.op = calls[i].op
                   /\ calls[i].error.layer =
                        (CASE calls[i].op = "leaseConnection" -> "connectable"
                           [] calls[i].op = "transaction" -> "transactional"
                           [] OTHER -> "queryable")
         /\ Entry.driver.methods = ConnectableMethods
              => (Delegated(i) <=> calls[i].op = "leaseConnection")

C4_Witness ==
  /\ phase = "built" /\ rdi.error = NoError
  /\ Entry.driver.methods = ConnectableMethods
  /\ calls[1].op = "leaseConnection" /\ Executed(1) /\ Delegated(1)
  /\ calls[2].op = "sendStatement" /\ Executed(2)
  /\ calls[2].error = TierError("queryable", "sendStatement", 2)

\* C5: for a compatible adapter that exposes `datastores`: with no entry for
\* the name build sets the terminal error "missing instance reference"; with an
\* entry lacking manager, driver or config it sets the terminal error
\* "incomplete instance reference"; in both cases build returns a handle and no
\* flag is true.
C5_MissingOrIncompleteReference ==
  (Attempted /\ adapter.compatible /\ adapter.dsKind # "absent"
     /\ (EntryPresent => ~(EntryKeys \subseteq Entry.keys)))
    => /\ phase = "built"
       /\ rdi.error = IF EntryPresent THEN StructuralError("incompleteReference")
                                      ELSE StructuralError("missingReference")
       /\ ~Truthy(rdi.isConnectable) /\ ~Truthy(rdi.isQueryable) /\ ~Truthy(rdi.isTransactional)

\* the flags are cumulative
C6_Monotone ==
  /\ Truthy(rdi.isTransactional) => Truthy(rdi.isQueryable)
  /\ Truthy(rdi.isQueryable) => Truthy(rdi.isConnectable)

\* each flag is true exactly when the driver has the names of its tier and below
C6_Exact ==
  /\ Truthy(rdi.isConnectable) <=> ConnectableMethods \subseteq Entry.driver.methods
  /\ Truthy(rdi.isQueryable) <=>
       (ConnectableMethods \cup QueryableMethods) \subseteq Entry.driver.methods
  /\ Truthy(rdi.isTransactional) <=> MethodNames \subseteq Entry.driver.methods

\* C6 as stated: in every built handle, terminal error or not, the flags are
\* cumulative and each is true exactly when the driver's method names include
\* those of its tier and of the tiers below.
C6_FlagsExactAlways ==
  (phase = "built" /\ EntryPresent) => (C6_Monotone /\ C6_Exact)

\* C6 amended: in every built handle the flags are cumulative; when build set no
\* terminal error each flag is true exactly when the driver's method names
\* include those of its tier and of the tiers below; when build set a terminal
\* error no flag is true.
C6_FlagsExactWhenValid ==
  phase = "built"
    => /\ C6_Monotone
       /\ rdi.error = NoError => C6_Exact
       /\ rdi.error # NoError =>
            (~Truthy(rdi.isConnectable) /\ ~Truthy(rdi.isQueryable)
               /\ ~Truthy(rdi.isTransactional))

C6_Witness ==
  /\ phase = "built" /\ rdi.error = NoError
  /\ Entry.driver.methods = ConnectableMethods \cup QueryableMethods \cup {"beginTransaction"}
  /\ Truthy(rdi.isQueryable) /\ ~Truthy(rdi.isTransactional)

\* C7: when the adapter fails the compatibility gate, build throws that fatal
\* error and nothing else: no handle is returned, `datastores` is not probed
\* (so neither a property read nor the assertion can throw first), no terminal
\* error is set and no method can be invoked.
C7_GateAborts ==
  (Attempted /\ ~adapter.compatible)
    => /\ phase = "aborted"
       /\ thrown = "fatal"
       /\ rdi = NoRdi
       /\ \A i \in CallIds : calls[i].status = "idle"

C7_Witness ==
  /\ phase = "aborted" /\ thrown = "fatal"
  /\ ~adapter.compatible /\ adapter.dsKind = "absent"

\* C8: for an invocation without explicit callback: a step that changes the
\* options of the pending deferred (a chained setter) leaves it pending, the
\* same deferred, with no helper invoked; the helper is invoked at most once,
\* and only by the step that executes the pending deferred, which hands it the
\* options exactly as the setters left them.
C8_SettersDoNotExecute ==
  [][\A i \in CallIds :
        /\ (calls[i].status = "pending" /\ calls'[i].options # calls[i].options)
             => /\ calls'[i].status = "pending"
                /\ calls'[i].op = calls[i].op
                /\ calls'[i].helperCalls = 0
                /\ calls'[i].options.primary = calls[i].options.primary
        /\ calls'[i].helperCalls <= 1
        /\ (calls[i].status = "pending" /\ calls'[i].helperCalls > calls[i].helperCalls)
             => /\ calls'[i].status = "done"
                /\ calls'[i].options = calls[i].options
                /\ calls'[i].helper = HelperOf(calls[i].op)
        /\ (calls[i].status = "done" => calls'[i].helperCalls = calls[i].helperCalls)
    ]_vars

C8_Witness ==
  /\ calls[1].status = "done" /\ calls[1].op = "sendStatement"
  /\ calls[1].helper = "helpSendStatement" /\ calls[1].helperCalls = 1
  /\ calls[1].options = [primary |-> PrimaryArg(1), meta |-> "m2", usingConnection |-> "c1"]

\* C9: a step changes the record of at most one invocation, so no setter,
\* merge or execution of one invocation changes the options, the helper or the
\* result of another; every invocation keeps its own primary argument; and once
\* the handle is built no step changes its terminal error or its flags.
C9_InvocationsIndependent ==
  [][/\ \A i, j \in CallIds :
          (i # j /\ calls'[i] # calls[i]) => calls'[j] = calls[j]
     /\ \A i \in CallIds :
          calls'[i].status # "idle" => calls'[i].options.primary = PrimaryArg(i)
     /\ phase = "built" => (rdi' = rdi /\ phase' = phase /\ adapter' = adapter)
    ]_vars

C9_Witness ==
  /\ calls[1].op = "sendNativeQuery" /\ calls[2].op = "sendNativeQuery"
  /\ Delegated(1) /\ Delegated(2)
  /\ calls[1].options.meta = "m1" /\ calls[1].options.usingConnection = "undefined"
  /\ calls[2].options.meta = "m2" /\ calls[2].options.usingConnection = "c1"

\* C10: in every build where the structural validation sets no terminal error
\* (the entry has its three keys, whatever they hold), the entry's driver is an
\* object, the assertion holds, and build returns a handle.
C10_DriverIsObjectWhenValid ==
  (Attempted /\ adapter.compatible /\ ~HasDatastores(adapter) /\ EntryPresent
     /\ EntryKeys \subseteq Entry.keys)
    => /\ Entry.driver.isObject
       /\ thrown = "none"
       /\ phase = "built"
====
